---- MODULE Spec2Model ----
(***************************************************************************)
(* gobfy: a Brainfuck interpreter.  The Processor (tape, data pointer,     *)
(* instruction buffer and pointer, closure stack) and the dispatch loop of *)
(* Execute, for both entry points of the repository: main.go (no debug     *)
(* flag, main ends after Execute) and the kingpin variant (debug flag,     *)
(* main calls ExpectEnd after Execute).                                    *)
(***************************************************************************)
EXTENDS Integers, Sequences, FiniteSets, TLC

\* ---------------------------------------------------------------- constants
InstMoveRight == 62     \* '>'
InstMoveLeft  == 60     \* '<'
InstIncrement == 43     \* '+'
InstDecrement == 45     \* '-'
InstOutput    == 46     \* '.'
InstInput     == 44     \* ','
InstLoopStart == 91     \* '['
InstLoopEnd   == 93     \* ']'

DefaultPageSize == 1024

\* a byte that is none of the eight instructions (a blank)
OtherByte == 32

\* ------------------------------------------------------------------- bounds
\* every program of at most MaxProgLen bytes over the alphabet is run
MaxProgLen == 3
\* the input source holds at most MaxInputLen bytes
MaxInputLen == 1
\* nothing is written once standard output holds MaxOutput bytes
MaxOutput == 3
\* the data pointer is not moved to MaxDataPointer or beyond
MaxDataPointer == 2060

Alphabet ==
  {InstMoveRight, InstMoveLeft, InstIncrement, InstDecrement,
   InstOutput, InstInput, InstLoopStart, InstLoopEnd, OtherByte}

\* the bytes the input source may hold, in order: "A", NUL, "B", ...
InputStream == [i \in 1..(MaxInputLen + 1) |-> IF i % 2 = 0 THEN 0 ELSE 64 + (i + 1) \div 2]

\* ++++++++[>++++++++<-]>.
ProgAt ==
  <<43, 43, 43, 43, 43, 43, 43, 43, 91, 62, 43, 43, 43, 43, 43, 43, 43, 43,
    60, 45, 93, 62, 46>>

\* +[]
ProgSpin == <<43, 91, 93>>

\* +[->+]  carries a 1 to the right for ever, past every page
ProgWalk == <<43, 91, 45, 62, 43, 93>>

\* ,.
ProgEcho == <<44, 46>>

\* [[]]
ProgNested == <<91, 91, 93, 93>>

\* [[+>.,<-]+]-
ProgGated == <<91, 91, 43, 62, 46, 44, 60, 45, 93, 43, 93, 45>>

\* +[+]  counts cell 0 up from 1 until it wraps to 0
ProgUp == <<43, 91, 43, 93>>

\* -[-]  counts cell 0 down from 255 to 0
ProgDown == <<45, 91, 45, 93>>

\* +[>[<]<-]  a loop that is skipped inside a loop that runs
ProgInner == <<43, 91, 62, 91, 60, 93, 60, 45, 93>>

\* 256 times +
ProgPlus256 == [i \in 1..256 |-> 43]

\* 257 times -
ProgMinus257 == [i \in 1..257 |-> 45]

\* +[>[[+]]<-]  two nested skipped loops inside a loop that runs
ProgDeep == <<43, 91, 62, 91, 91, 43, 93, 93, 60, 45, 93>>

FixedPrograms ==
  {ProgAt, ProgSpin, ProgWalk, ProgEcho, ProgNested, ProgGated, ProgUp,
   ProgDown, ProgInner, ProgPlus256, ProgMinus257, ProgDeep}

Programs ==
  UNION {[1..n -> Alphabet] : n \in 0..MaxProgLen} \cup FixedPrograms

Inputs == {SubSeq(InputStream, 1, n) : n \in 0..MaxInputLen}

EntryPoints == {"main.go", "kingpin"}

\* -------------------------------------------------------------------- state
VARIABLES
  Data,                \* Processor.Data: Data.len is len(p.Data), Data.nz maps
                       \* the index of every non-zero cell to its value
  DataPointer,         \* Processor.DataPointer
  Debug,               \* Processor.Debug
  stdin,               \* the bytes not yet read from the input source
  instructionPointer,  \* Processor.instructionPointer
  instructionBuffer,   \* Processor.instructionBuffer
  closures,            \* Processor.closures, closures[1] is the top frame
  stdout,              \* the bytes written to standard output
  lastLog,             \* the last diagnostic line written by the debug trace
  entry,               \* which main() runs
  pc,                  \* position in main(): Load, Execute, ExpectEnd, exit
  fatal                \* the log.Fatal that ended the process, or "none"

vars ==
  <<Data, DataPointer, Debug, stdin, instructionPointer, instructionBuffer,
    closures, stdout, lastLog, entry, pc, fatal>>

\* make([]byte, n): n cells, all zero
MakeBytes(n) == [len |-> n, nz |-> [i \in {} |-> 0]]

\* append(data, more...)
AppendBytes(data, more) ==
  [len |-> data.len + more.len,
   nz  |-> [i \in DOMAIN data.nz \cup {data.len + j : j \in DOMAIN more.nz} |->
              IF i \in DOMAIN data.nz THEN data.nz[i] ELSE more.nz[i - data.len]]]

\* data[i]
At(data, i) == IF i \in DOMAIN data.nz THEN data.nz[i] ELSE 0

\* data[i] = b
Store(data, i, b) ==
  [data EXCEPT !.nz = [j \in IF b = 0 THEN DOMAIN data.nz \ {i}
                                     ELSE DOMAIN data.nz \cup {i} |->
                         IF j = i THEN b ELSE data.nz[j]]]

\* the messages of the four log.Fatal calls
OutOfBoundsError == "can not move data pointer left, already at beginning of data"
UnbalancedLoopError == "unexpected end of closure, not in any closure"
UnterminatedLoopError == "unexpected end of instructions, still in a closure"
IOError == "EOF"

RootClosure == [Skip |-> FALSE, Root |-> TRUE, Start |-> 0]

Closure(start, skip) == [Skip |-> skip, Root |-> FALSE, Start |-> start]

NoLog == <<>>

\* NewProcessor(), the debug flag and the input source
Init ==
  /\ Data = MakeBytes(DefaultPageSize)
  /\ DataPointer = 0
  /\ entry \in EntryPoints
  /\ Debug \in BOOLEAN
  /\ (entry = "main.go" => Debug = FALSE)
  /\ stdin \in Inputs
  /\ instructionPointer = 0
  /\ instructionBuffer = <<>>
  /\ closures = <<RootClosure>>
  /\ stdout = <<>>
  /\ lastLog = NoLog
  /\ pc = "Load"
  /\ fatal = "none"

\* ------------------------------------------------------------------ helpers
Current == At(Data, DataPointer)

\* ensureDataSize that grows only once the pointer is past the length
ensureDataSize_late(data, dataPointer) ==
  IF dataPointer > data.len
  THEN LET nextPagedSize == (1 + (dataPointer \div DefaultPageSize)) * DefaultPageSize
       IN  AppendBytes(data, MakeBytes(1 + nextPagedSize - data.len))
  ELSE data

ensureDataSize(data, dataPointer) ==
  IF dataPointer >= data.len
  THEN LET nextPagedSize == (1 + (dataPointer \div DefaultPageSize)) * DefaultPageSize
       IN  AppendBytes(data, MakeBytes(1 + nextPagedSize - data.len))
  ELSE data

\* fmt.Printf("%c", rune(b)): the UTF-8 encoding of code point b
EncodeRune(b) ==
  IF b < 128 THEN <<b>>
  ELSE <<192 + (b \div 64), 128 + (b % 64)>>

\* the byte the dispatch loop is about to decode
Fetching == pc = "Execute" /\ instructionPointer < Len(instructionBuffer)

Instruction == instructionBuffer[instructionPointer + 1]

Decoding(inst) == Fetching /\ Instruction = inst

\* the log.Printf of the debug trace, before the switch
DebugLine ==
  IF Debug
  THEN <<Instruction, instructionPointer, Current, DataPointer, Data.len>>
  ELSE lastLog

\* log.Fatal: the process exits at once
Fatal(msg) ==
  /\ fatal' = msg
  /\ pc' = "exit"

\* p.instructionPointer++ at the end of an iteration that began at `from`
NextIteration(from) ==
  /\ instructionPointer' = from + 1
  /\ pc' = pc
  /\ fatal' = fatal

\* --------------------------------------------------------------- operations
Load ==
  /\ pc = "Load"
  /\ \E instructions \in Programs :
       /\ instructionBuffer' = instructions
       /\ instructionPointer' = 0
  /\ pc' = "Execute"
  /\ UNCHANGED <<Data, DataPointer, Debug, stdin, closures, stdout, lastLog,
                 entry, fatal>>

\* Increment without the Skip gate
Increment_ungated ==
  /\ Decoding(InstIncrement)
  /\ lastLog' = DebugLine
  /\ Data' = Store(Data, DataPointer, (Current + 1) % 256)
  /\ NextIteration(instructionPointer)
  /\ UNCHANGED <<DataPointer, Debug, stdin, instructionBuffer, closures,
                 stdout, entry>>

Increment ==
  /\ Decoding(InstIncrement)
  /\ lastLog' = DebugLine
  /\ IF closures[1].Skip
     THEN UNCHANGED Data
     ELSE Data' = Store(Data, DataPointer, (Current + 1) % 256)
  /\ NextIteration(instructionPointer)
  /\ UNCHANGED <<DataPointer, Debug, stdin, instructionBuffer, closures,
                 stdout, entry>>

\* Decrement without the Skip gate
Decrement_ungated ==
  /\ Decoding(InstDecrement)
  /\ lastLog' = DebugLine
  /\ Data' = Store(Data, DataPointer, (Current + 255) % 256)
  /\ NextIteration(instructionPointer)
  /\ UNCHANGED <<DataPointer, Debug, stdin, instructionBuffer, closures,
                 stdout, entry>>

\* Decrement that stops at 0 instead of wrapping to 255
Decrement_saturating ==
  /\ Decoding(InstDecrement)
  /\ lastLog' = DebugLine
  /\ IF closures[1].Skip
     THEN UNCHANGED Data
     ELSE Data' = Store(Data, DataPointer, IF Current = 0 THEN 0 ELSE Current - 1)
  /\ NextIteration(instructionPointer)
  /\ UNCHANGED <<DataPointer, Debug, stdin, instructionBuffer, closures,
                 stdout, entry>>

Decrement ==
  /\ Decoding(InstDecrement)
  /\ lastLog' = DebugLine
  /\ IF closures[1].Skip
     THEN UNCHANGED Data
     ELSE Data' = Store(Data, DataPointer, (Current + 255) % 256)
  /\ NextIteration(instructionPointer)
  /\ UNCHANGED <<DataPointer, Debug, stdin, instructionBuffer, closures,
                 stdout, entry>>

MoveRight ==
  /\ Decoding(InstMoveRight)
  /\ closures[1].Skip \/ DataPointer + 1 < MaxDataPointer
  /\ lastLog' = DebugLine
  /\ IF closures[1].Skip
     THEN UNCHANGED <<Data, DataPointer>>
     ELSE /\ DataPointer' = DataPointer + 1
          /\ Data' = ensureDataSize(Data, DataPointer + 1)
  /\ NextIteration(instructionPointer)
  /\ UNCHANGED <<Debug, stdin, instructionBuffer, closures, stdout, entry>>

\* MoveLeft without the check for the beginning of the tape
MoveLeft_unchecked ==
  /\ Decoding(InstMoveLeft)
  /\ lastLog' = DebugLine
  /\ IF closures[1].Skip
     THEN UNCHANGED DataPointer
     ELSE DataPointer' = DataPointer - 1
  /\ NextIteration(instructionPointer)
  /\ UNCHANGED <<Data, Debug, stdin, instructionBuffer, closures, stdout,
                 entry>>

MoveLeft ==
  /\ Decoding(InstMoveLeft)
  /\ lastLog' = DebugLine
  /\ IF closures[1].Skip
     THEN /\ UNCHANGED DataPointer
          /\ NextIteration(instructionPointer)
     ELSE IF DataPointer = 0
          THEN /\ UNCHANGED <<DataPointer, instructionPointer>>
               /\ Fatal(OutOfBoundsError)
          ELSE /\ DataPointer' = DataPointer - 1
               /\ NextIteration(instructionPointer)
  /\ UNCHANGED <<Data, Debug, stdin, instructionBuffer, closures, stdout,
                 entry>>

\* Output whose debug trace goes to standard output as well
Output_traceToStdout ==
  /\ Decoding(InstOutput)
  /\ closures[1].Skip \/ Len(stdout) < MaxOutput
  /\ lastLog' = DebugLine
  /\ LET trace == IF Debug THEN <<Instruction>> ELSE <<>>
     IN  IF closures[1].Skip
         THEN stdout' = stdout \o trace
         ELSE stdout' = stdout \o trace \o EncodeRune(Current)
  /\ NextIteration(instructionPointer)
  /\ UNCHANGED <<Data, DataPointer, Debug, stdin, instructionBuffer,
                 closures, entry>>

\* Output that writes the cell as one raw byte
Output_rawByte ==
  /\ Decoding(InstOutput)
  /\ closures[1].Skip \/ Len(stdout) < MaxOutput
  /\ lastLog' = DebugLine
  /\ IF closures[1].Skip
     THEN UNCHANGED stdout
     ELSE stdout' = stdout \o <<Current>>
  /\ NextIteration(instructionPointer)
  /\ UNCHANGED <<Data, DataPointer, Debug, stdin, instructionBuffer,
                 closures, entry>>

Output ==
  /\ Decoding(InstOutput)
  /\ closures[1].Skip \/ Len(stdout) < MaxOutput
  /\ lastLog' = DebugLine
  /\ IF closures[1].Skip
     THEN UNCHANGED stdout
     ELSE stdout' = stdout \o EncodeRune(Current)
  /\ NextIteration(instructionPointer)
  /\ UNCHANGED <<Data, DataPointer, Debug, stdin, instructionBuffer,
                 closures, entry>>

\* Input without the Skip gate
Input_ungated ==
  /\ Decoding(InstInput)
  /\ lastLog' = DebugLine
  /\ IF stdin = <<>>
     THEN /\ UNCHANGED <<Data, stdin, instructionPointer>>
          /\ Fatal(IOError)
     ELSE /\ Data' = Store(Data, DataPointer, Head(stdin))
          /\ stdin' = Tail(stdin)
          /\ NextIteration(instructionPointer)
  /\ UNCHANGED <<DataPointer, Debug, instructionBuffer, closures, stdout,
                 entry>>

\* Input that stores 0 and goes on when the input source is exhausted
Input_zeroAtEOF ==
  /\ Decoding(InstInput)
  /\ lastLog' = DebugLine
  /\ IF closures[1].Skip
     THEN UNCHANGED <<Data, stdin>>
     ELSE IF stdin = <<>>
          THEN /\ Data' = Store(Data, DataPointer, 0)
               /\ UNCHANGED stdin
          ELSE /\ Data' = Store(Data, DataPointer, Head(stdin))
               /\ stdin' = Tail(stdin)
  /\ NextIteration(instructionPointer)
  /\ UNCHANGED <<DataPointer, Debug, instructionBuffer, closures, stdout,
                 entry>>

Input ==
  /\ Decoding(InstInput)
  /\ lastLog' = DebugLine
  /\ IF closures[1].Skip
     THEN /\ UNCHANGED <<Data, stdin>>
          /\ NextIteration(instructionPointer)
     ELSE IF stdin = <<>>
          THEN /\ UNCHANGED <<Data, stdin, instructionPointer>>
               /\ Fatal(IOError)
          ELSE /\ Data' = Store(Data, DataPointer, Head(stdin))
               /\ stdin' = Tail(stdin)
               /\ NextIteration(instructionPointer)
  /\ UNCHANGED <<DataPointer, Debug, instructionBuffer, closures, stdout,
                 entry>>

\* StartLoop that pushes no frame for a loop inside a skipped loop
StartLoop_flat ==
  /\ Decoding(InstLoopStart)
  /\ lastLog' = DebugLine
  /\ closures' = IF closures[1].Skip THEN closures
                 ELSE <<Closure(instructionPointer, Current = 0)>> \o closures
  /\ NextIteration(instructionPointer)
  /\ UNCHANGED <<Data, DataPointer, Debug, stdin, instructionBuffer, stdout,
                 entry>>

\* StartLoop that records the position after the [
StartLoop_startAfter ==
  /\ Decoding(InstLoopStart)
  /\ lastLog' = DebugLine
  /\ closures' = <<Closure(instructionPointer + 1, Current = 0)>> \o closures
  /\ NextIteration(instructionPointer)
  /\ UNCHANGED <<Data, DataPointer, Debug, stdin, instructionBuffer, stdout,
                 entry>>

\* StartLoop that marks the frame skipped when the cell is not zero
StartLoop_inverted ==
  /\ Decoding(InstLoopStart)
  /\ lastLog' = DebugLine
  /\ closures' = <<Closure(instructionPointer, Current # 0)>> \o closures
  /\ NextIteration(instructionPointer)
  /\ UNCHANGED <<Data, DataPointer, Debug, stdin, instructionBuffer, stdout,
                 entry>>

StartLoop ==
  /\ Decoding(InstLoopStart)
  /\ lastLog' = DebugLine
  /\ closures' = <<Closure(instructionPointer, Current = 0)>> \o closures
  /\ NextIteration(instructionPointer)
  /\ UNCHANGED <<Data, DataPointer, Debug, stdin, instructionBuffer, stdout,
                 entry>>

\* EndLoop that pops the frame also when it jumps back
EndLoop_popsOnJump ==
  /\ Decoding(InstLoopEnd)
  /\ lastLog' = DebugLine
  /\ IF Len(closures) <= 1
     THEN /\ UNCHANGED <<closures, instructionPointer>>
          /\ Fatal(UnbalancedLoopError)
     ELSE LET currentClosure == closures[1]
          IN  /\ closures' = Tail(closures)
              /\ IF ~currentClosure.Skip /\ Current > 0
                 THEN NextIteration(currentClosure.Start)
                 ELSE NextIteration(instructionPointer)
  /\ UNCHANGED <<Data, DataPointer, Debug, stdin, instructionBuffer, stdout,
                 entry>>

\* EndLoop that leaves the frame on the stack when the loop is left
EndLoop_keepsFrame ==
  /\ Decoding(InstLoopEnd)
  /\ lastLog' = DebugLine
  /\ IF Len(closures) <= 1
     THEN /\ UNCHANGED <<closures, instructionPointer>>
          /\ Fatal(UnbalancedLoopError)
     ELSE LET currentClosure == closures[1]
          IN  IF ~currentClosure.Skip /\ Current > 0
              THEN /\ UNCHANGED closures
                   /\ NextIteration(currentClosure.Start)
              ELSE /\ closures' = IF currentClosure.Skip THEN Tail(closures)
                                                       ELSE closures
                   /\ NextIteration(instructionPointer)
  /\ UNCHANGED <<Data, DataPointer, Debug, stdin, instructionBuffer, stdout,
                 entry>>

\* EndLoop that jumps to the [ itself, so that it is executed again
EndLoop_rerunsStart ==
  /\ Decoding(InstLoopEnd)
  /\ lastLog' = DebugLine
  /\ IF Len(closures) <= 1
     THEN /\ UNCHANGED <<closures, instructionPointer>>
          /\ Fatal(UnbalancedLoopError)
     ELSE LET currentClosure == closures[1]
          IN  IF ~currentClosure.Skip /\ Current > 0
              THEN /\ UNCHANGED closures
                   /\ NextIteration(currentClosure.Start - 1)
              ELSE /\ closures' = Tail(closures)
                   /\ NextIteration(instructionPointer)
  /\ UNCHANGED <<Data, DataPointer, Debug, stdin, instructionBuffer, stdout,
                 entry>>

\* EndLoop that returns on an unmatched ] instead of calling log.Fatal
EndLoop_tolerant ==
  /\ Decoding(InstLoopEnd)
  /\ lastLog' = DebugLine
  /\ IF Len(closures) <= 1
     THEN /\ UNCHANGED closures
          /\ NextIteration(instructionPointer)
     ELSE LET currentClosure == closures[1]
          IN  IF ~currentClosure.Skip /\ Current > 0
              THEN /\ UNCHANGED closures
                   /\ NextIteration(currentClosure.Start)
              ELSE /\ closures' = Tail(closures)
                   /\ NextIteration(instructionPointer)
  /\ UNCHANGED <<Data, DataPointer, Debug, stdin, instructionBuffer, stdout,
                 entry>>

EndLoop ==
  /\ Decoding(InstLoopEnd)
  /\ lastLog' = DebugLine
  /\ IF Len(closures) <= 1
     THEN /\ UNCHANGED <<closures, instructionPointer>>
          /\ Fatal(UnbalancedLoopError)
     ELSE LET currentClosure == closures[1]
          IN  IF ~currentClosure.Skip /\ Current > 0
              THEN /\ UNCHANGED closures
                   /\ NextIteration(currentClosure.Start)
              ELSE /\ closures' = Tail(closures)
                   /\ NextIteration(instructionPointer)
  /\ UNCHANGED <<Data, DataPointer, Debug, stdin, instructionBuffer, stdout,
                 entry>>

\* a default case that leaves the loop iteration before the increment
Skip_stuck ==
  /\ Fetching
  /\ Instruction \notin
       {InstMoveRight, InstMoveLeft, InstIncrement, InstDecrement,
        InstOutput, InstInput, InstLoopStart, InstLoopEnd}
  /\ lastLog' = DebugLine
  /\ UNCHANGED <<Data, DataPointer, Debug, stdin, instructionBuffer,
                 closures, stdout, entry, instructionPointer, pc, fatal>>

\* the default case of the switch
Skip ==
  /\ Fetching
  /\ Instruction \notin
       {InstMoveRight, InstMoveLeft, InstIncrement, InstDecrement,
        InstOutput, InstInput, InstLoopStart, InstLoopEnd}
  /\ lastLog' = DebugLine
  /\ NextIteration(instructionPointer)
  /\ UNCHANGED <<Data, DataPointer, Debug, stdin, instructionBuffer,
                 closures, stdout, entry>>

\* the for condition of Execute fails: back in main()
ExecuteReturn ==
  /\ pc = "Execute"
  /\ instructionPointer >= Len(instructionBuffer)
  /\ pc' = IF entry = "kingpin" THEN "ExpectEnd" ELSE "exit"
  /\ UNCHANGED <<Data, DataPointer, Debug, stdin, instructionPointer,
                 instructionBuffer, closures, stdout, lastLog, entry, fatal>>

ExpectEnd ==
  /\ pc = "ExpectEnd"
  /\ IF Len(closures) > 1
     THEN Fatal(UnterminatedLoopError)
     ELSE /\ pc' = "exit"
          /\ fatal' = fatal
  /\ UNCHANGED <<Data, DataPointer, Debug, stdin, instructionPointer,
                 instructionBuffer, closures, stdout, lastLog, entry>>

Next ==
  \/ Load
  \/ Increment
  \/ Decrement
  \/ MoveRight
  \/ MoveLeft
  \/ Output
  \/ Input
  \/ StartLoop
  \/ EndLoop
  \/ Skip
  \/ ExecuteReturn
  \/ ExpectEnd

Spec == Init /\ [][Next]_vars

\* the dispatch loop of Execute always takes its next iteration
FairSpec == Spec /\ WF_vars(Next)

\* ------------------------------------------------------------- vocabulary
\* some frame of the closure stack is skipped
AnySkip == \E i \in 1..Len(closures) : closures[i].Skip

\* the step leaves the tape, the data pointer, the input and the output alone
Frozen ==
  /\ Data' = Data
  /\ DataPointer' = DataPointer
  /\ stdin' = stdin
  /\ stdout' = stdout

\* the position of the ] that closes, under ordinary bracket nesting, a loop
\* whose body is scanned from position j at nesting depth `depth`; -1 if none
RECURSIVE ScanClose(_, _, _)
ScanClose(buf, j, depth) ==
  IF j >= Len(buf) THEN -1
  ELSE IF buf[j + 1] = InstLoopStart THEN ScanClose(buf, j + 1, depth + 1)
  ELSE IF buf[j + 1] = InstLoopEnd
       THEN IF depth = 1 THEN j ELSE ScanClose(buf, j + 1, depth - 1)
  ELSE ScanClose(buf, j + 1, depth)

\* the position of the ] matching the [ at position i
MatchingEnd(buf, i) == ScanClose(buf, i + 1, 1)

\* --------------------------------------------------------------------- C1
\* C1: inside a loop whose [ was executed on a zero cell, every step up to
\* and including the matching ] leaves the tape, the data pointer, the input
\* and the output alone and advances the instruction pointer by exactly 1
\* without an error; a [ pushes one more skipped frame and a ] pops the top
\* frame, which is the frame of the lexically matching [; and a [ executed
\* on a zero cell pushes a skipped frame.
C1_SkipSemantics ==
  [][ /\ (Fetching /\ AnySkip) =>
           /\ Frozen
           /\ instructionPointer' = instructionPointer + 1
           /\ pc' = "Execute"
           /\ fatal' = "none"
           /\ closures' =
                IF Instruction = InstLoopStart
                THEN <<Closure(instructionPointer, TRUE)>> \o closures
                ELSE IF Instruction = InstLoopEnd THEN Tail(closures)
                ELSE closures
           /\ Instruction = InstLoopEnd =>
                instructionPointer =
                  MatchingEnd(instructionBuffer, closures[1].Start)
      /\ (Decoding(InstLoopStart) /\ Current = 0) =>
           /\ closures' = <<Closure(instructionPointer, TRUE)>> \o closures
           /\ Frozen
           /\ instructionPointer' = instructionPointer + 1
    ]_vars

\* [[+>.,<-]+]- has been scanned up to the - : both skipped frames are
\* popped, the tape is still all zero and the input byte is still unread
C1_Witness ==
  /\ instructionBuffer = ProgGated
  /\ instructionPointer = 11
  /\ closures = <<RootClosure>>
  /\ Data = MakeBytes(DefaultPageSize)
  /\ DataPointer = 0
  /\ stdin # <<>>
  /\ stdout = <<>>

\* --------------------------------------------------------------------- C2
\* C2: when the instruction buffer is exhausted with more than the root
\* closure on the stack, the run ends with the fatal error of ExpectEnd.
C2_UnterminatedLoop ==
  (/\ pc = "exit"
   /\ instructionPointer >= Len(instructionBuffer)
   /\ Len(closures) > 1) => fatal = UnterminatedLoopError

\* --------------------------------------------------------------------- C3
\* C3: a ] executed with only the root closure on the stack ends the run at
\* once with the fatal error of EndLoop and changes nothing else; after any
\* exit no further step is taken.
C3_UnbalancedLoop ==
  [][ /\ (Decoding(InstLoopEnd) /\ Len(closures) = 1) =>
           /\ fatal' = UnbalancedLoopError
           /\ pc' = "exit"
           /\ Frozen
           /\ closures' = closures
           /\ instructionPointer' = instructionPointer
           /\ instructionBuffer' = instructionBuffer
      /\ pc = "exit" => UNCHANGED vars
    ]_vars

\* the program ] has failed at position 0
C3_Witness ==
  /\ instructionBuffer = <<InstLoopEnd>>
  /\ fatal = UnbalancedLoopError
  /\ pc = "exit"
  /\ instructionPointer = 0
  /\ closures = <<RootClosure>>

\* --------------------------------------------------------------------- C4
\* C4 as stated: the data pointer is never negative, and every < decoded
\* with the data pointer at 0 ends the run with the out-of-bounds error.
C4_AlwaysFails ==
  /\ [](DataPointer >= 0)
  /\ [][ (Decoding(InstMoveLeft) /\ DataPointer = 0) =>
           (fatal' = OutOfBoundsError /\ pc' = "exit") ]_vars

\* C4 amended: the data pointer is never negative; a < decoded with the
\* data pointer at 0 while the top frame is not skipped ends the run with
\* the out-of-bounds error and moves nothing; a < decoded with the data
\* pointer at 0 while the top frame is skipped is stepped over without an
\* error and without moving the data pointer.
C4_FailsUnlessSkipped ==
  /\ [](DataPointer >= 0)
  /\ [][ (Decoding(InstMoveLeft) /\ DataPointer = 0) =>
           IF closures[1].Skip
           THEN /\ fatal' = "none"
                /\ pc' = "Execute"
                /\ DataPointer' = 0
                /\ instructionPointer' = instructionPointer + 1
           ELSE /\ fatal' = OutOfBoundsError
                /\ pc' = "exit"
                /\ DataPointer' = 0
                /\ instructionPointer' = instructionPointer
                /\ Data' = Data
                /\ closures' = closures ]_vars

\* +[<  has failed at its < with the data pointer at 0 inside a running loop
C4_Witness ==
  /\ fatal = OutOfBoundsError
  /\ pc = "exit"
  /\ DataPointer = 0
  /\ Len(closures) = 2
  /\ instructionBuffer[instructionPointer + 1] = InstMoveLeft

\* --------------------------------------------------------------------- C5
\* the number of bytes equal to inst among the first n bytes of buf
CountIn(buf, n, inst) == Cardinality({i \in 1..n : buf[i] = inst})

\* buf consists of + and - only
ArithOnly(buf) ==
  \A i \in 1..Len(buf) : buf[i] \in {InstIncrement, InstDecrement}

\* C5: while a program of + and - only runs, after its first n instructions
\* cell 0 holds (number of + among them - number of - among them) mod 256,
\* the data pointer is still 0 and no error has been raised.
C5_WrapAround ==
  (pc # "Load" /\ ArithOnly(instructionBuffer)) =>
    /\ DataPointer = 0
    /\ fatal = "none"
    /\ Current =
         (CountIn(instructionBuffer, instructionPointer, InstIncrement)
          - CountIn(instructionBuffer, instructionPointer, InstDecrement)) % 256

\* 256 times + has run to its end and cell 0 has wrapped to 0
C5_Witness ==
  /\ instructionBuffer = ProgPlus256
  /\ pc = "exit"
  /\ instructionPointer = 256
  /\ Current = 0

\* --------------------------------------------------------------------- C6
\* C6: in every state the data pointer is an index of an existing cell; a >
\* that is not skipped moves the data pointer by one without an error, the
\* tape is long enough for it at once, the cells below the old length are
\* kept and every cell added is zero.
C6_PointerInTape ==
  /\ [](DataPointer >= 0 /\ DataPointer < Data.len)
  /\ [][ (Decoding(InstMoveRight) /\ ~closures[1].Skip) =>
           /\ DataPointer' = DataPointer + 1
           /\ DataPointer' < Data'.len
           /\ fatal' = "none"
           /\ pc' = "Execute"
           /\ \A i \in 0..(Data'.len - 1) :
                At(Data', i) = IF i < Data.len THEN At(Data, i) ELSE 0 ]_vars

\* the data pointer has left the first page and the cells added for it:
\* the tape has grown a second time
C6_Witness ==
  /\ DataPointer = 2 * DefaultPageSize + 1
  /\ Data.len > 2 * DefaultPageSize + 1
  /\ instructionBuffer = ProgWalk

\* --------------------------------------------------------------------- C7
\* C7: the tape is 1024 cells long when the program is loaded, never gets
\* shorter, every change of its length adds a positive multiple of 1024
\* cells, and after the change the length exceeds the data pointer.
C7_PageQuantized ==
  /\ [](pc = "Load" => Data.len = DefaultPageSize)
  /\ [][ /\ Data'.len >= Data.len
         /\ (Data'.len # Data.len) =>
               /\ (Data'.len - Data.len) % DefaultPageSize = 0
               /\ Data'.len > DataPointer' ]_vars

\* --------------------------------------------------------------------- C8
\* the nesting depth after the first n bytes of buf
NestingDepth(buf, n) ==
  CountIn(buf, n, InstLoopStart) - CountIn(buf, n, InstLoopEnd)

\* the [ and ] of buf are balanced: no ] without an open [, no [ left open
Balanced(buf) ==
  \/ \A i \in 1..Len(buf) : buf[i] \notin {InstLoopStart, InstLoopEnd}
  \/ /\ \A n \in 1..Len(buf) : NestingDepth(buf, n) >= 0
     /\ NestingDepth(buf, Len(buf)) = 0

\* a balanced program is being executed
RunningBalanced == pc = "Execute" /\ Balanced(instructionBuffer)

\* the instruction buffer is exhausted
AtEnd == pc # "Load" /\ instructionPointer >= Len(instructionBuffer)

\* the next instruction is a ] that jumps back: its frame is not skipped and
\* the current cell is not zero
AtJumpBack ==
  /\ Decoding(InstLoopEnd)
  /\ Len(closures) > 1
  /\ ~closures[1].Skip
  /\ Current > 0

\* the next instruction is one the bounds of the model do not let run
AtBound ==
  /\ Fetching
  /\ ~closures[1].Skip
  /\ \/ Instruction = InstMoveRight /\ DataPointer + 1 >= MaxDataPointer
     \/ Instruction = InstOutput /\ Len(stdout) >= MaxOutput

\* C8 as stated: the execution of a balanced program eventually reaches the
\* end of the instruction buffer.
C8_BalancedTerminates == RunningBalanced ~> AtEnd

\* C8 amended: from every point of the execution of a balanced program, the
\* run eventually reaches the end of the instruction buffer with only the
\* root closure on the stack, or is ended by a fatal error (of < or of ,),
\* or comes to a ] that jumps back; so a balanced program that jumps back
\* only finitely often and meets no error terminates with the stack
\* balanced.
C8_TerminatesUnlessLoops ==
  RunningBalanced ~>
    \/ AtEnd /\ closures = <<RootClosure>> /\ fatal = "none"
    \/ fatal \in {OutOfBoundsError, IOError}
    \/ AtJumpBack
    \/ AtBound

\* ++++++++[>++++++++<-]>. has run to its end and left main() normally
C8_Witness ==
  /\ instructionBuffer = ProgAt
  /\ pc = "exit"
  /\ fatal = "none"
  /\ instructionPointer = Len(ProgAt)
  /\ closures = <<RootClosure>>

\* --------------------------------------------------------------------- C9
\* C9: once +[] has executed its + and its [, it stays for ever on the ] at
\* position 2 with cell 0 at 1 and the two frames <<[ at 1, root>>; it never
\* exits Execute and raises no error; and before that no error is raised.
C9_SpinsForEver ==
  /\ []((instructionBuffer = ProgSpin /\ pc # "Load") =>
          /\ pc = "Execute"
          /\ fatal = "none"
          /\ instructionPointer \in 0..2
          /\ instructionPointer = 2 =>
               /\ Decoding(InstLoopEnd)
               /\ Current = 1
               /\ DataPointer = 0
               /\ closures = <<Closure(1, FALSE), RootClosure>>)
  /\ [][ (instructionBuffer = ProgSpin /\ instructionPointer = 2) =>
           /\ instructionPointer' = 2
           /\ closures' = closures
           /\ Data' = Data
           /\ pc' = "Execute"
           /\ lastLog' = DebugLine ]_vars

\* +[] is on its ] and, with the debug trace on, has executed it at least once
C9_Witness ==
  /\ instructionBuffer = ProgSpin
  /\ instructionPointer = 2
  /\ Len(closures) = 2
  /\ lastLog # NoLog
  /\ lastLog[1] = InstLoopEnd

\* -------------------------------------------------------------------- C10
\* C10: ++++++++[>++++++++<-]>. with empty input runs to the end and leaves
\* main() without an error; then standard output holds the one byte 64,
\* which is the one character "@"; cell 0 is 0, cell 1 is 64 and every other
\* cell is 0, the data pointer is 1 and only the root closure is on the
\* stack.
C10_EndToEnd ==
  /\ []((instructionBuffer = ProgAt /\ stdin = <<>>) =>
          /\ fatal = "none"
          /\ Len(stdout) <= 1
          /\ pc = "exit" =>
               /\ stdout = <<64>>
               /\ stdout = EncodeRune(64)
               /\ instructionPointer = Len(ProgAt)
               /\ At(Data, 0) = 0
               /\ At(Data, 1) = 64
               /\ DOMAIN Data.nz = {1}
               /\ DataPointer = 1
               /\ closures = <<RootClosure>>)
  /\ (instructionBuffer = ProgAt /\ stdin = <<>>) ~> (pc = "exit")

\* the run of the program with empty input has ended after printing "@"
C10_Witness ==
  /\ instructionBuffer = ProgAt
  /\ stdin = <<>>
  /\ pc = "exit"
  /\ stdout = <<64>>

\* -------------------------------------------------------------------- C11
\* the characters (code points) that a reader of UTF-8 finds in bytes; a byte
\* that begins no well-formed sequence reads as U+FFFD
RECURSIVE DecodeUTF8(_)
DecodeUTF8(bytes) ==
  IF bytes = <<>> THEN <<>>
  ELSE IF bytes[1] < 128 THEN <<bytes[1]>> \o DecodeUTF8(Tail(bytes))
  ELSE IF /\ bytes[1] \in 194..223
          /\ Len(bytes) >= 2
          /\ bytes[2] \in 128..191
       THEN <<(bytes[1] - 192) * 64 + (bytes[2] - 128)>>
              \o DecodeUTF8(SubSeq(bytes, 3, Len(bytes)))
  ELSE <<65533>> \o DecodeUTF8(Tail(bytes))

C12_InputExhausted ==
  [][ /\ (Decoding(InstInput) /\ ~closures[1].Skip /\ stdin = <<>>) =>
           /\ fatal' = IOError
           /\ pc' = "exit"
           /\ Frozen
           /\ closures' = closures
           /\ instructionPointer' = instructionPointer
      /\ fatal = IOError => UNCHANGED vars
    ]_vars

\* -, has failed at its , and cell 0 still holds 255
C12_Witness ==
  /\ fatal = IOError
  /\ pc = "exit"
  /\ Current = 255
  /\ instructionBuffer[instructionPointer + 1] = InstInput
  /\ instructionPointer + 1 < Len(instructionBuffer)

\* -------------------------------------------------------------------- C13
\* what a run shows apart from its debug trace: tape, data pointer, unread
\* input, instruction pointer and buffer, closure stack, output and error
Observable ==
  [Data |-> Data, DataPointer |-> DataPointer, stdin |-> stdin,
   instructionPointer |-> instructionPointer,
   instructionBuffer |-> instructionBuffer, closures |-> closures,
   stdout |-> stdout, fatal |-> fatal]

\* one iteration of the loop of Execute in main.go, which has no debug flag
\* (its trace is commented out), as a function of the Processor p
ExecuteIteration(p) ==
  LET instruction == p.instructionBuffer[p.instructionPointer + 1]
      skip == p.closures[1].Skip
      current == At(p.Data, p.DataPointer)
      advance(q) == [q EXCEPT !.instructionPointer = @ + 1]
  IN  CASE instruction = InstMoveRight ->
             IF skip THEN advance(p)
             ELSE advance([p EXCEPT
                    !.DataPointer = @ + 1,
                    !.Data = ensureDataSize(@, p.DataPointer + 1)])
        [] instruction = InstMoveLeft ->
             IF skip THEN advance(p)
             ELSE IF p.DataPointer = 0
                  THEN [p EXCEPT !.fatal = OutOfBoundsError]
                  ELSE advance([p EXCEPT !.DataPointer = @ - 1])
        [] instruction = InstDecrement ->
             IF skip THEN advance(p)
             ELSE advance([p EXCEPT
                    !.Data = Store(@, p.DataPointer, (current + 255) % 256)])
        [] instruction = InstIncrement ->
             IF skip THEN advance(p)
             ELSE advance([p EXCEPT
                    !.Data = Store(@, p.DataPointer, (current + 1) % 256)])
        [] instruction = InstInput ->
             IF skip THEN advance(p)
             ELSE IF p.stdin = <<>>
                  THEN [p EXCEPT !.fatal = IOError]
                  ELSE advance([p EXCEPT
                         !.Data = Store(@, p.DataPointer, Head(p.stdin)),
                         !.stdin = Tail(@)])
        [] instruction = InstOutput ->
             IF skip THEN advance(p)
             ELSE advance([p EXCEPT !.stdout = @ \o EncodeRune(current)])
        [] instruction = InstLoopStart ->
             advance([p EXCEPT
               !.closures = <<Closure(p.instructionPointer, current = 0)>> \o @])
        [] instruction = InstLoopEnd ->
             IF Len(p.closures) <= 1
             THEN [p EXCEPT !.fatal = UnbalancedLoopError]
             ELSE IF ~skip /\ current > 0
                  THEN [p EXCEPT !.instructionPointer = p.closures[1].Start + 1]
                  ELSE advance([p EXCEPT !.closures = Tail(@)])
        [] OTHER -> advance(p)

\* C13: whether Debug is set or not, every iteration of the dispatch loop
\* takes tape, data pointer, input, instruction pointer, closure stack,
\* output and error to what the loop without a debug flag computes from
\* them, and stays in Execute unless it failed; and what happens once the
\* buffer is exhausted depends on the closure stack alone.  So the runs of
\* one program on one input with Debug set and with Debug unset go through
\* the same states, write the same output, read the same input and end alike.
C13_DebugHasNoEffect ==
  [][ /\ Fetching =>
           /\ Observable' = ExecuteIteration(Observable)
           /\ pc' = IF fatal' = "none" THEN "Execute" ELSE "exit"
           /\ Debug' = Debug
      /\ (pc \in {"Execute", "ExpectEnd"} /\ ~Fetching) =>
           /\ [Observable' EXCEPT !.fatal = "none"] = Observable
           /\ fatal' = IF pc = "ExpectEnd" /\ Len(closures) > 1
                       THEN UnterminatedLoopError ELSE "none"
           /\ pc' = IF pc = "Execute" /\ entry = "kingpin"
                    THEN "ExpectEnd" ELSE "exit"
    ]_vars

\* -. has run to its end with the debug trace on: the last line traced is
\* that of the . and the output is the character U+00FF
C13_Witness ==
  /\ Debug
  /\ pc = "exit"
  /\ fatal = "none"
  /\ instructionBuffer = <<InstDecrement, InstOutput>>
  /\ lastLog = <<InstOutput, 1, 255, 0, DefaultPageSize>>
  /\ stdout = EncodeRune(255)

\* -------------------------------------------------------------------- C14
\* C14: once a program is loaded, the closure stack holds one frame more
\* than there are [ still open at the instruction pointer (the nesting depth
\* of the bytes before it); its bottom frame, and no other, is the root
\* closure, which is not skipped; every [ pushes exactly one frame, skipped
\* region or not; a ] that jumps back leaves the stack as it is and lands
\* after the [, so no frame is pushed again; a ] that leaves the loop pops
\* exactly one frame.
C14_StackDepth ==
  /\ [](pc # "Load" =>
          /\ Len(closures) =
               1 + NestingDepth(instructionBuffer, instructionPointer)
          /\ closures[Len(closures)] = RootClosure
          /\ \A i \in 1..(Len(closures) - 1) : ~closures[i].Root)
  /\ [][ /\ Decoding(InstLoopStart) =>
               Len(closures') = Len(closures) + 1 /\ Tail(closures') = closures
         /\ (Decoding(InstLoopEnd) /\ Len(closures) > 1) =>
               IF ~closures[1].Skip /\ Current > 0
               THEN /\ closures' = closures
                    /\ instructionBuffer[instructionPointer'] = InstLoopStart
               ELSE closures' = Tail(closures)
         /\ (Fetching /\ Instruction \notin {InstLoopStart, InstLoopEnd}) =>
               closures' = closures ]_vars

\* +[>[<]<-] is inside its skipped inner loop: three frames
C14_Witness ==
  /\ instructionBuffer = ProgInner
  /\ instructionPointer = 4
  /\ Len(closures) = 3
  /\ closures[1].Skip
  /\ ~closures[2].Skip

\* -------------------------------------------------------------------- C15
\* C15: at a ] whose top frame is the frame of a loop and is not skipped: if
\* the current cell is not zero, the instruction pointer goes to the frame's
\* Start + 1 and the stack is unchanged; if it is zero, the frame is popped
\* and the instruction pointer goes to the position after the ].  Nothing
\* else changes and no error is raised.
C15_EndLoop ==
  [][ (Decoding(InstLoopEnd) /\ Len(closures) > 1 /\ ~closures[1].Skip) =>
        /\ IF Current # 0
           THEN /\ instructionPointer' = closures[1].Start + 1
                /\ closures' = closures
           ELSE /\ instructionPointer' = instructionPointer + 1
                /\ closures' = Tail(closures)
        /\ Frozen
        /\ pc' = "Execute"
        /\ fatal' = "none" ]_vars

\* +[+] is at the first instruction of its body for the second time, with
\* the one frame its [ pushed
C15_Witness ==
  /\ instructionBuffer = ProgUp
  /\ instructionPointer = 2
  /\ Current = 2
  /\ closures = <<Closure(1, FALSE), RootClosure>>

\* -------------------------------------------------------------------- C16
\* C16: every frame above a skipped frame is skipped, and while any frame is
\* skipped the current cell is zero.
C16_SkipIsInherited ==
  /\ \A i \in 1..Len(closures) : \A j \in 1..Len(closures) :
       (i < j /\ closures[j].Skip) => closures[i].Skip
  /\ AnySkip => Current = 0

\* +[>[[+]]<-] is inside its innermost loop: two skipped frames above a
\* frame that is not skipped
C16_Witness ==
  /\ instructionBuffer = ProgDeep
  /\ Len(closures) = 4
  /\ closures[1].Skip
  /\ closures[2].Skip
  /\ ~closures[3].Skip
  /\ DataPointer = 1

\* -------------------------------------------------------------------- C17
\* the position of the [ that opens, under ordinary bracket nesting, the loop
\* that is `depth` levels deep at position j, scanning to the left; -1 if none
RECURSIVE ScanOpen(_, _, _)
ScanOpen(buf, j, depth) ==
  IF j < 0 THEN -1
  ELSE IF buf[j + 1] = InstLoopEnd THEN ScanOpen(buf, j - 1, depth + 1)
  ELSE IF buf[j + 1] = InstLoopStart
       THEN IF depth = 1 THEN j ELSE ScanOpen(buf, j - 1, depth - 1)
  ELSE ScanOpen(buf, j - 1, depth)

\* the position of the [ matching the ] at position i
MatchingStart(buf, i) == ScanOpen(buf, i - 1, 1)

\* C17: whenever a ] is about to be executed with more than the root closure
\* on the stack, the Start of the top frame is the position of the [ that
\* matches this ] lexically, and that [ is in turn matched by this ].
C17_LexicalMatch ==
  (Decoding(InstLoopEnd) /\ Len(closures) > 1) =>
    /\ closures[1].Start = MatchingStart(instructionBuffer, instructionPointer)
    /\ instructionBuffer[closures[1].Start + 1] = InstLoopStart
    /\ MatchingEnd(instructionBuffer, closures[1].Start) = instructionPointer

\* +[>[<]<-] is at the ] of its inner, skipped loop and at the ] of its outer
\* loop: the state named is the first
C17_Witness ==
  /\ instructionBuffer = ProgInner
  /\ instructionPointer = 5
  /\ closures[1] = Closure(3, TRUE)
  /\ closures[2] = Closure(1, FALSE)

\* -------------------------------------------------------------------- C18
\* C18: decoding a byte that is none of the eight instructions advances the
\* instruction pointer by 1 and changes neither tape (contents and length),
\* data pointer, closure stack, input, output nor error; and once loaded the
\* instruction buffer is never changed.
C18_OtherBytes ==
  [][ /\ (Fetching /\ Instruction \notin
             {InstMoveRight, InstMoveLeft, InstIncrement, InstDecrement,
              InstOutput, InstInput, InstLoopStart, InstLoopEnd}) =>
           /\ instructionPointer' = instructionPointer + 1
           /\ Frozen
           /\ closures' = closures
           /\ pc' = "Execute"
           /\ fatal' = "none"
      /\ pc # "Load" => instructionBuffer' = instructionBuffer
    ]_vars

\* + > and a blank: the blank has been stepped over with cell 0 at 1 and the
\* data pointer at 1
C18_Witness ==
  /\ instructionBuffer = <<InstIncrement, InstMoveRight, OtherByte>>
  /\ instructionPointer = 3
  /\ At(Data, 0) = 1
  /\ DataPointer = 1
  /\ closures = <<RootClosure>>

\* -------------------------------------------------------------------- C19
\* The reference interpreter: a machine with an instruction pointer, a tape
\* that is zero wherever it was not written, a cursor, the unread input and
\* the characters written.  At [ on a zero cell it jumps past the matching ],
\* at ] on a non-zero cell it jumps back to just after the matching [.
RefStep(r, buf) ==
  LET inst == buf[r.ip + 1]
      cell == At(r.tape, r.cursor)
      go(q) == [q EXCEPT !.ip = @ + 1]
  IN  CASE inst = InstMoveRight -> go([r EXCEPT !.cursor = @ + 1])
        [] inst = InstMoveLeft -> go([r EXCEPT !.cursor = @ - 1])
        [] inst = InstIncrement ->
             go([r EXCEPT !.tape = Store(@, r.cursor, (cell + 1) % 256)])
        [] inst = InstDecrement ->
             go([r EXCEPT !.tape = Store(@, r.cursor, (cell + 255) % 256)])
        [] inst = InstOutput -> go([r EXCEPT !.output = Append(@, cell)])
        [] inst = InstInput ->
             go([r EXCEPT !.tape = Store(@, r.cursor, Head(r.input)),
                          !.input = Tail(@)])
        [] inst = InstLoopStart ->
             IF cell = 0 THEN [r EXCEPT !.ip = MatchingEnd(buf, r.ip) + 1]
             ELSE go(r)
        [] inst = InstLoopEnd ->
             IF cell # 0 THEN [r EXCEPT !.ip = MatchingStart(buf, r.ip) + 1]
             ELSE go(r)
        [] OTHER -> go(r)

\* the index in closures of the outermost skipped frame
OutermostSkip ==
  CHOOSE j \in 1..Len(closures) :
    closures[j].Skip /\ \A k \in (j + 1)..Len(closures) : ~closures[k].Skip

\* the state of the reference interpreter that the Processor stands for:
\* while it scans a skipped loop, the reference interpreter is still at the
\* [ of the outermost skipped loop, about to jump
RefView ==
  [ip     |-> IF AnySkip THEN closures[OutermostSkip].Start
              ELSE instructionPointer,
   tape   |-> [nz |-> Data.nz],
   cursor |-> DataPointer,
   input  |-> stdin,
   output |-> DecodeUTF8(stdout)]

\* C19: for a balanced program, the Processor starts where the reference
\* interpreter starts; every step that raises no error either scans inside a
\* skipped loop, and then tape, cursor, input and output are untouched and
\* the reference interpreter waits at the [ of that loop, or it is exactly
\* one step of the reference interpreter; and when the instruction buffer is
\* exhausted no loop is being scanned, so the reference interpreter has
\* reached the end too, with the same output, tape and cursor.
C19_RefinesReference ==
  /\ [](pc = "Load" =>
          RefView = [ip |-> 0, tape |-> [nz |-> <<>>], cursor |-> 0,
                     input |-> stdin, output |-> <<>>])
  /\ [][ (Fetching /\ Balanced(instructionBuffer) /\ fatal' = "none") =>
           IF AnySkip'
           THEN RefView' = RefView
           ELSE RefView' = RefStep(RefView, instructionBuffer) ]_vars
  /\ []((pc # "Load" /\ Balanced(instructionBuffer) /\ AtEnd) =>
          /\ ~AnySkip
          /\ RefView.ip = Len(instructionBuffer))

\* [[+>.,<-]+]- has run to its end: the loops were scanned without effect
\* and the - after them has made cell 0 255
C19_Witness ==
  /\ instructionBuffer = ProgGated
  /\ pc = "exit"
  /\ fatal = "none"
  /\ RefView = [ip |-> Len(ProgGated), tape |-> [nz |-> (0 :> 255)],
                cursor |-> 0, input |-> stdin, output |-> <<>>]

\* -------------------------------------------------------------------- C20
\* the programs a caller loads into a Processor it uses again:  ]  +]  blank
ReloadPrograms ==
  {<<InstLoopEnd>>, <<InstIncrement, InstLoopEnd>>, <<OtherByte>>}

\* Load that also empties the closure stack, as NewProcessor leaves it
Reload_fresh ==
  /\ pc = "Execute"
  /\ ~Fetching
  /\ Len(closures) > 1
  /\ \E instructions \in ReloadPrograms :
       /\ instructionBuffer' = instructions
       /\ instructionPointer' = 0
  /\ closures' = <<RootClosure>>
  /\ UNCHANGED <<Data, DataPointer, Debug, stdin, stdout, lastLog, entry,
                 pc, fatal>>

\* Load called again by a caller that keeps the Processor after Execute has
\* come to the end of the buffer inside a loop, and then runs Execute again
Reload ==
  /\ pc = "Execute"
  /\ ~Fetching
  /\ Len(closures) > 1
  /\ \E instructions \in ReloadPrograms :
       /\ instructionBuffer' = instructions
       /\ instructionPointer' = 0
  /\ UNCHANGED <<Data, DataPointer, Debug, stdin, closures, stdout, lastLog,
                 entry, pc, fatal>>

NextReuse ==
  \/ Next
  \/ Reload

\* main(), or a caller that uses the Processor again
ReuseSpec == Init /\ [][NextReuse]_vars

\* the step is a call of Load: the first one, or one on a used Processor
LoadStep ==
  \/ pc = "Load"
  \/ pc = "Execute" /\ ~Fetching /\ pc' = "Execute"

\* C20: a call of Load sets the instruction pointer to 0 and, apart from the
\* instruction buffer, changes nothing: tape contents and length, data
\* pointer, closure stack, input, output and error are as before; so after
\* a run that ended inside a loop the frames of that run are on the stack,
\* more than the root closure, when Execute starts on the next program; and
\* no other step changes the instruction buffer.
C20_LoadKeepsState ==
  [][ /\ LoadStep =>
           /\ instructionPointer' = 0
           /\ pc' = "Execute"
           /\ Frozen
           /\ closures' = closures
           /\ fatal' = fatal
           /\ Debug' = Debug
           /\ lastLog' = lastLog
      /\ (LoadStep /\ pc = "Execute") => Len(closures') > 1
      /\ ~LoadStep => instructionBuffer' = instructionBuffer
    ]_vars

\* after a run that left a skipped frame on the stack, the program +] has
\* been loaded and run: its + was gated and its ] has popped that frame
\* without an error
C20_Witness ==
  /\ instructionBuffer = <<InstIncrement, InstLoopEnd>>
  /\ instructionPointer = 2
  /\ pc = "Execute"
  /\ fatal = "none"
  /\ closures = <<RootClosure>>
  /\ Data = MakeBytes(DefaultPageSize)
====
